---- MODULE Spec2Model ----
(***************************************************************************)
(* Model of macos/iphone_backup.py: main() drives one backup run over one  *)
(* of two device handlers (iPhoneBackup: ifuse mount + local file calls,   *)
(* AndroidBackup: adb shell / adb pull).  File names and device paths are  *)
(* sequences of code points, so that os.path.basename, os.path.splitext,   *)
(* str.lower and the string order used by sorted() are computed, not       *)
(* assumed.                                                                *)
(***************************************************************************)
EXTENDS Integers, Sequences, FiniteSets, TLC

\* ------------------------------------------------------------------ bounds
\* Largest number of files the device's DCIM listing holds.
MaxFiles == 2

\* Sizes (bytes) a device file may have.
Sizes == {1, 2}

\* ------------------------------------------------------- strings and paths
\* "a.mov", "b.MP4", "n.txt" as code points.
NameAMov == <<97, 46, 109, 111, 118>>
NameBMp4 == <<98, 46, 77, 80, 52>>
NameNTxt == <<110, 46, 116, 120, 116>>

\* '/' and '.'
Sep == <<47>>
Dot == <<46>>

\* os.path.join(root, file)
PathJoin(root, file) == root \o Sep \o file

\* DCIM sub-folders "1" and "2".
Dir1 == <<49>>
Dir2 == <<50>>

\* The files a device may hold under DCIM: a.mov in two folders (the same
\* base name twice), b.MP4 (upper-case extension) and n.txt (not a media file).
DevicePaths ==
    { PathJoin(Dir1, NameAMov), PathJoin(Dir2, NameAMov),
      PathJoin(Dir1, NameBMp4), PathJoin(Dir1, NameNTxt) }

\* Index of the last occurrence of code point c in s, 0 when there is none
\* (str.rfind, 1-based).
RFind(s, c) ==
    LET hits == { i \in 1..Len(s) : s[i] = c }
    IN  IF hits = {} THEN 0 ELSE CHOOSE i \in hits : \A j \in hits : j <= i

\* os.path.basename(path): what follows the last '/'.
Basename(path) == SubSeq(path, RFind(path, Sep[1]) + 1, Len(path))

\* os.path.splitext(name)[1]: from the last dot to the end, unless that dot is
\* one of the leading dots of the name (genericpath._splitext).
SplitExt(name) ==
    LET dotIndex == RFind(name, Dot[1])
    IN  IF dotIndex > 0 /\ \E k \in 1..(dotIndex - 1) : name[k] # Dot[1]
        THEN SubSeq(name, dotIndex, Len(name))
        ELSE <<>>

\* str.lower() on ASCII: 'A'..'Z' (65..90) become 'a'..'z'.
Lower(s) == [i \in 1..Len(s) |-> IF s[i] >= 65 /\ s[i] <= 90 THEN s[i] + 32 ELSE s[i]]

\* SUPPORTED_EXTENSIONS = ['.mov', '.mp4', '.avi', '.jpg', '.jpeg', '.png', '.heic']
SUPPORTED_EXTENSIONS ==
    << <<46, 109, 111, 118>>, <<46, 109, 112, 52>>, <<46, 97, 118, 105>>,
       <<46, 106, 112, 103>>, <<46, 106, 112, 101, 103>>, <<46, 112, 110, 103>>,
       <<46, 104, 101, 105, 99>> >>

\* ext in SUPPORTED_EXTENSIONS, with ext = os.path.splitext(file)[1].lower()
IsSupported(name) ==
    \E k \in 1..Len(SUPPORTED_EXTENSIONS) : Lower(SplitExt(name)) = SUPPORTED_EXTENSIONS[k]

\* Python's str order: by the first differing code point, a proper prefix first.
StrLess(a, b) ==
    \E i \in 1..(Len(a) + 1) :
        /\ i <= Len(b)
        /\ \A j \in 1..(i - 1) : a[j] = b[j]
        /\ (i = Len(a) + 1 \/ a[i] < b[i])

\* One insertion of the stable sort: x goes after every entry whose key is not
\* greater than its own.  Catalog entries are <<source_path, file_name, size>>.
InsertByName(s, x) ==
    LET notAfter == { i \in 1..Len(s) : ~StrLess(x[2], s[i][2]) }
        n == Cardinality(notAfter)
    IN  SubSeq(s, 1, n) \o <<x>> \o SubSeq(s, n + 1, Len(s))

RECURSIVE SortedFrom(_, _)
SortedFrom(acc, rest) ==
    IF rest = <<>> THEN acc
    ELSE SortedFrom(InsertByName(acc, Head(rest)), Tail(rest))

\* sorted(media_files, key=lambda x: x[1]): stable, ascending by file name.
\* (Variant that returns the entries as they were enumerated.)
Unsorted(media) == media

SortedByName(media) == SortedFrom(<<>>, media)

\* ------------------------------------------------------------------- state
VARIABLES
    pc,            \* position of main()
    device_type,   \* "iphone" | "android" once the handler is created
    mount_point,   \* iPhoneBackup.mount_point is set
    mounted,       \* the ifuse mount exists
    dcim,          \* the device's DCIM listing in raw enumeration order
    device_files,  \* paths that exist on the device
    destination,   \* destination directory: file name -> file
    media_files,   \* main's media_files (the catalog)
    idx,           \* loop position inside copy_files / delete_files
    outcomes,      \* per processed catalog entry, what copy_files reported
    verify_state,  \* "not_run" | "returned" | "raised"
    verified,      \* verify_files' verified list
    failed,        \* verify_files' failed list
    remove_calls,  \* source paths handed to os.remove / adb shell rm, in order
    unmount_calls, \* number of calls of unmount_device
    pending,       \* exception in flight: "none" | "Exception" | "KeyboardInterrupt"
    fatal,         \* the fatal error main printed before returning, or "none"
    scan_stat,     \* ScanSpec: the size-read outcome of each listed item
    scan_dcim,     \* ScanSpec: whether the DCIM folder could be listed
    space_check,   \* SpaceSpec: the free-space reading and check_disk_space's verdict
    delete_answer, \* the answer to the deletion prompt: "none" | "Y" | "N"
    remove_log     \* per remove call, what delete_files printed

vars == << pc, device_type, mount_point, mounted, dcim, device_files, destination,
           media_files, idx, outcomes, verify_state, verified, failed, remove_calls,
           unmount_calls, pending, fatal, scan_stat, scan_dcim, space_check,
           delete_answer, remove_log >>

\* No file under that name.
NoFile == [size |-> -1, src |-> <<>>]

\* A destination file left by an earlier run.
PriorSrc == <<0>>

\* Names under which an earlier run may have left a file in the destination.
PriorNames == {NameAMov, NameBMp4}

DestNames == { Basename(p) : p \in DevicePaths }

Exists(dest, name) == dest[name] # NoFile

\* Listings: sequences of at most MaxFiles distinct device paths, each with a size.
RawListings ==
    UNION { [1..n -> [path : DevicePaths, size : Sizes]] : n \in 0..MaxFiles }

Listings == { l \in RawListings : \A i, j \in 1..Len(l) : l[i].path = l[j].path => i = j }

InitialDestinations ==
    { d \in [DestNames -> {NoFile} \cup [size : Sizes, src : {PriorSrc}]] :
        \A n \in DestNames \ PriorNames : d[n] = NoFile }

Init ==
    /\ pc = "args"
    /\ device_type = "none"
    /\ mount_point = FALSE
    /\ mounted = FALSE
    /\ dcim \in Listings
    /\ device_files = { dcim[i].path : i \in 1..Len(dcim) }
    /\ destination \in InitialDestinations
    /\ media_files = <<>>
    /\ idx = 0
    /\ outcomes = <<>>
    /\ verify_state = "not_run"
    /\ verified = <<>>
    /\ failed = <<>>
    /\ remove_calls = <<>>
    /\ unmount_calls = 0
    /\ pending = "none"
    /\ fatal = "none"
    /\ scan_stat = <<>>
    /\ scan_dcim = FALSE
    /\ space_check = <<>>
    /\ delete_answer = "none"
    /\ remove_log = <<>>

\* ------------------------------------------------------------ enumeration
\* Outcomes of reading one item's size: os.path.getsize (iPhone) returns or
\* raises OSError; adb shell stat (Android) exits 0 with a number, exits
\* non-zero, prints something int() rejects, or runs into its 5 s timeout.
StatOutcomes(dt) ==
    IF dt = "iphone" THEN {"ok", "OSError"}
    ELSE {"ok", "nonzero", "unparsable", "timeout"}

\* The entries the scan appends, in listing order: supported extension and a
\* size that could be read.
RECURSIVE Collect(_, _, _)
Collect(listing, stat, i) ==
    IF i > Len(listing) THEN <<>>
    ELSE LET path == listing[i].path
             name == Basename(path)
         IN  IF IsSupported(name) /\ stat[i] = "ok"
             THEN <<<<path, name, listing[i].size>>>> \o Collect(listing, stat, i + 1)
             ELSE Collect(listing, stat, i + 1)

\* iPhoneBackup.find_media_files: [] without a mount point or a DCIM folder.
IPhoneFind(hasMount, dcimFound, listing, stat) ==
    IF ~hasMount \/ ~dcimFound THEN <<>>
    ELSE SortedByName(Collect(listing, stat, 1))

\* AndroidBackup.find_media_files: [] when find fails; a stat call that times
\* out raises TimeoutExpired inside the loop, which the enclosing
\* "except Exception" turns into [].
AndroidFind(dcimFound, listing, stat) ==
    IF ~dcimFound THEN <<>>
    ELSE IF \E i \in 1..Len(listing) :
                IsSupported(Basename(listing[i].path)) /\ stat[i] = "timeout"
         THEN <<>>
         ELSE SortedByName(Collect(listing, stat, 1))

FindResult(dt, hasMount, dcimFound, listing, stat) ==
    IF dt = "iphone" THEN IPhoneFind(hasMount, dcimFound, listing, stat)
    ELSE AndroidFind(dcimFound, listing, stat)

\* ------------------------------------------------------------------ main()
\* Lines 358-398: destination and device type; "pixel" is normalised to
\* "android"; a missing destination or an invalid choice returns.  (Every
\* return of main passes the final input() of 466-467, which changes nothing:
\* it is part of the returning step, and "terminated" is main having returned.)
ParseArgs ==
    /\ pc = "args"
    /\ \/ \E choice \in {"iphone", "pixel", "android"} :
            /\ device_type' = (IF choice = "pixel" THEN "android" ELSE choice)
            /\ pc' = "deps"
       \/ /\ pc' = "terminated"
          /\ UNCHANGED device_type
    /\ UNCHANGED << mount_point, mounted, dcim, device_files, destination, media_files,
                    idx, outcomes, verify_state, verified, failed, remove_calls,
                    unmount_calls, pending >>
    /\ UNCHANGED << fatal, scan_stat, scan_dcim, space_check >>
    /\ UNCHANGED << delete_answer, remove_log >>

\* Where main goes after check_dependencies (401-402).
AfterDependencies(ok) == IF ok THEN "connected" ELSE "terminated"

\* Where main goes after is_device_connected (405-411).
\* (Variant that goes on although the device was not found.)
ConnectedIgnoresFailure(ok, dt) == IF dt = "iphone" THEN "mount" ELSE "commence"

AfterConnected(ok, dt) ==
    IF ~ok THEN "terminated" ELSE IF dt = "iphone" THEN "mount" ELSE "commence"

\* Where main goes after mount_device (411-412).
AfterMount(ok) == IF ok THEN "commence" ELSE "terminated"

\* Where main goes after the first prompt (416-419): into the scan, or through
\* the outer finally.
\* (Variant whose return sits before the try: no cleanup.)
CommenceReturnsOutsideTry(yes) == IF yes THEN "find" ELSE "terminated"

AfterCommence(yes) == IF yes THEN "find" ELSE "cleanup"

\* Lines 400-402: check_dependencies.
CheckDependencies ==
    /\ pc = "deps"
    /\ \E ok \in BOOLEAN :
         /\ pc' = AfterDependencies(ok)
         /\ fatal' = (IF ok THEN fatal ELSE "dependencies")
    /\ UNCHANGED << device_type, mount_point, mounted, dcim, device_files, destination,
                    media_files, idx, outcomes, verify_state, verified, failed,
                    remove_calls, unmount_calls, pending >>
    /\ UNCHANGED << scan_stat, scan_dcim, space_check >>
    /\ UNCHANGED << delete_answer, remove_log >>

\* Lines 404-407: is_device_connected; only the iPhone handler is mounted next.
IsDeviceConnected ==
    /\ pc = "connected"
    /\ \E ok \in BOOLEAN :
         /\ pc' = AfterConnected(ok, device_type)
         /\ fatal' = (IF ok THEN fatal ELSE "not_connected")
    /\ UNCHANGED << device_type, mount_point, mounted, dcim, device_files, destination,
                    media_files, idx, outcomes, verify_state, verified, failed,
                    remove_calls, unmount_calls, pending >>
    /\ UNCHANGED << scan_stat, scan_dcim, space_check >>
    /\ UNCHANGED << delete_answer, remove_log >>

\* Lines 409-412 and mount_device (118-138): ifuse exits 0 and mount_point is
\* set, or the mount fails and main returns.
MountDevice ==
    /\ pc = "mount"
    /\ \E ok \in BOOLEAN :
         /\ mount_point' = ok
         /\ mounted' = ok
         /\ pc' = AfterMount(ok)
         /\ fatal' = (IF ok THEN fatal ELSE "mount_failed")
    /\ UNCHANGED << device_type, dcim, device_files, destination, media_files, idx,
                    outcomes, verify_state, verified, failed, remove_calls,
                    unmount_calls, pending >>
    /\ UNCHANGED << scan_stat, scan_dcim, space_check >>
    /\ UNCHANGED << delete_answer, remove_log >>

\* Lines 415-419: the prompt before copying.
AskCommence ==
    /\ pc = "commence"
    /\ \E yes \in BOOLEAN : pc' = AfterCommence(yes)
    /\ UNCHANGED << device_type, mount_point, mounted, dcim, device_files, destination,
                    media_files, idx, outcomes, verify_state, verified, failed,
                    remove_calls, unmount_calls, pending >>
    /\ UNCHANGED << fatal, scan_stat, scan_dcim, space_check >>
    /\ UNCHANGED << delete_answer, remove_log >>

\* Lines 423-428: find_media_files and the empty-catalog return.
FindMediaFiles ==
    /\ pc = "find"
    /\ \E dcimFound \in BOOLEAN, stat \in [1..Len(dcim) -> StatOutcomes(device_type)] :
         LET found == FindResult(device_type, mount_point, dcimFound, dcim, stat)
         IN  /\ media_files' = found
             /\ pc' = (IF found = <<>> THEN "cleanup" ELSE "space")
    /\ UNCHANGED << device_type, mount_point, mounted, dcim, device_files, destination,
                    idx, outcomes, verify_state, verified, failed, remove_calls,
                    unmount_calls, pending >>
    /\ UNCHANGED << fatal, scan_stat, scan_dcim, space_check >>
    /\ UNCHANGED << delete_answer, remove_log >>

\* A Ctrl-C while the device is being scanned: KeyboardInterrupt leaves
\* find_media_files (neither handler catches it) and reaches the outer finally.
FindInterrupted ==
    /\ pc = "find"
    /\ pending' = "KeyboardInterrupt"
    /\ pc' = "cleanup"
    /\ UNCHANGED << device_type, mount_point, mounted, dcim, device_files, destination,
                    media_files, idx, outcomes, verify_state, verified, failed,
                    remove_calls, unmount_calls >>
    /\ UNCHANGED << fatal, scan_stat, scan_dcim, space_check >>
    /\ UNCHANGED << delete_answer, remove_log >>

\* ------------------------------------------------------------ space check
\* Free-space readings shutil.disk_usage may give: it raises, or reports free bytes.
FreeReadings == [ok : {FALSE}, free : {0}] \cup [ok : {TRUE}, free : {0, 3}]

RECURSIVE SumSizes(_)
\* sum(size for _, _, size in media_files)
SumSizes(files) == IF files = <<>> THEN 0 ELSE Head(files)[3] + SumSizes(Tail(files))

\* (Variant that reports insufficient space when the reading fails.)
FailsClosed(required_bytes, reading) == reading.ok /\ ~(reading.free < required_bytes)

\* DeviceBackup.check_disk_space
check_disk_space(required_bytes, reading) ==
    IF ~reading.ok THEN TRUE
    ELSE ~(reading.free < required_bytes)

\* Lines 430-437: the advisory space check and its prompt.
CheckDiskSpace ==
    /\ pc = "space"
    /\ \E reading \in FreeReadings :
         IF check_disk_space(SumSizes(media_files), reading)
         THEN pc' = "copy" /\ idx' = 1
         ELSE pc' = "space_prompt" /\ idx' = idx
    /\ UNCHANGED << device_type, mount_point, mounted, dcim, device_files, destination,
                    media_files, outcomes, verify_state, verified, failed, remove_calls,
                    unmount_calls, pending >>
    /\ UNCHANGED << fatal, scan_stat, scan_dcim, space_check >>
    /\ UNCHANGED << delete_answer, remove_log >>

AskContinueLowSpace ==
    /\ pc = "space_prompt"
    /\ \E yes \in BOOLEAN :
         IF yes THEN pc' = "copy" /\ idx' = 1 ELSE pc' = "cleanup" /\ idx' = idx
    /\ UNCHANGED << device_type, mount_point, mounted, dcim, device_files, destination,
                    media_files, outcomes, verify_state, verified, failed, remove_calls,
                    unmount_calls, pending >>
    /\ UNCHANGED << fatal, scan_stat, scan_dcim, space_check >>
    /\ UNCHANGED << delete_answer, remove_log >>

\* --------------------------------------------------------------- transfer
\* The skip test of copy_files (183 / 300):
\* os.path.exists(dest_path) and os.path.getsize(dest_path) == size
\* (Variant with > for ==.)
SkipTestGreater(dest, entry) == Exists(dest, entry[2]) /\ dest[entry[2]].size > entry[3]

AlreadyCopied(dest, entry) == Exists(dest, entry[2]) /\ dest[entry[2]].size = entry[3]

\* Where copy_files goes after entry i: the next entry, or back to main's finally.
\* (Variant that leaves the loop after the first entry.)
LeavesAfterFirst(i, files) == "verify"

AfterEntry(i, files) == IF i < Len(files) THEN "copy" ELSE "verify"

\* The destination after a fetch wrote k bytes of source_path under file_name
\* (shutil.copy2 and adb pull open the destination for writing: no append).
\* (Variant that appends to a file already there instead of replacing it.)
WrittenAppending(dest, entry, k) ==
    [dest EXCEPT ![entry[2]] =
        [size |-> (IF Exists(dest, entry[2]) THEN dest[entry[2]].size ELSE 0) + k,
         src |-> entry[1]]]

Written(dest, entry, k) == [dest EXCEPT ![entry[2]] = [size |-> k, src |-> entry[1]]]

\* Lines 182-186 / 299-303: the entry is already there with the right size.
CopySkip ==
    /\ pc = "copy"
    /\ AlreadyCopied(destination, media_files[idx])
    /\ outcomes' = Append(outcomes, "Skipped")
    /\ pc' = AfterEntry(idx, media_files)
    /\ idx' = idx + 1
    /\ UNCHANGED << device_type, mount_point, mounted, dcim, device_files, destination,
                    media_files, verify_state, verified, failed, remove_calls,
                    unmount_calls, pending >>
    /\ UNCHANGED << fatal, scan_stat, scan_dcim, space_check >>
    /\ UNCHANGED << delete_answer, remove_log >>

\* The device's files after a fetch of the entry: shutil.copy2 and adb pull
\* read the source and leave it where it is.
\* (Variant that moves the file instead of copying it.)
MovesSource(files, entry) == files \ {entry[1]}

DeviceAfterFetch(files, entry) == files

\* Lines 192-202 / 309-323: the fetch succeeds and the whole file is written.
CopyFetchOk ==
    /\ pc = "copy"
    /\ ~AlreadyCopied(destination, media_files[idx])
    /\ destination' = Written(destination, media_files[idx], media_files[idx][3])
    /\ device_files' = DeviceAfterFetch(device_files, media_files[idx])
    /\ outcomes' = Append(outcomes, "Copied")
    /\ pc' = AfterEntry(idx, media_files)
    /\ idx' = idx + 1
    /\ UNCHANGED << device_type, mount_point, mounted, dcim, media_files,
                    verify_state, verified, failed, remove_calls, unmount_calls, pending >>
    /\ UNCHANGED << fatal, scan_stat, scan_dcim, space_check >>
    /\ UNCHANGED << delete_answer, remove_log >>

\* Lines 203-204 / 324-327: the fetch fails (exception, adb timeout or non-zero
\* exit) before the destination is opened, or after k bytes were written; the
\* error is printed and the loop goes on.
CopyFetchFails ==
    /\ pc = "copy"
    /\ ~AlreadyCopied(destination, media_files[idx])
    /\ \/ UNCHANGED destination
       \/ \E k \in 0..media_files[idx][3] :
            destination' = Written(destination, media_files[idx], k)
    /\ outcomes' = Append(outcomes, "Failed")
    /\ pc' = AfterEntry(idx, media_files)
    /\ idx' = idx + 1
    /\ UNCHANGED << device_type, mount_point, mounted, dcim, device_files, media_files,
                    verify_state, verified, failed, remove_calls, unmount_calls, pending >>
    /\ UNCHANGED << fatal, scan_stat, scan_dcim, space_check >>
    /\ UNCHANGED << delete_answer, remove_log >>

\* A Ctrl-C during the fetch: KeyboardInterrupt is no Exception, so it leaves
\* copy_files, passes main's "except Exception" (442) and runs the finally.
CopyInterrupted ==
    /\ pc = "copy"
    /\ ~AlreadyCopied(destination, media_files[idx])
    /\ \/ UNCHANGED destination
       \/ \E k \in 0..(media_files[idx][3] - 1) :
            destination' = Written(destination, media_files[idx], k)
    /\ outcomes' = Append(outcomes, "Interrupted")
    /\ pending' = "KeyboardInterrupt"
    /\ pc' = "verify"
    /\ idx' = idx + 1
    /\ UNCHANGED << device_type, mount_point, mounted, dcim, device_files, media_files,
                    verify_state, verified, failed, remove_calls, unmount_calls >>
    /\ UNCHANGED << fatal, scan_stat, scan_dcim, space_check >>
    /\ UNCHANGED << delete_answer, remove_log >>

\* os.path.getsize of an existing destination file raises OSError in the skip
\* test (183 / 300), outside the try: copy_files raises, main's
\* "except Exception" (442-443) reports it and the finally runs.
CopyRaises ==
    /\ pc = "copy"
    /\ Exists(destination, media_files[idx][2])
    /\ outcomes' = Append(outcomes, "Raised")
    /\ pc' = "verify"
    /\ idx' = idx + 1
    /\ UNCHANGED << device_type, mount_point, mounted, dcim, device_files, destination,
                    media_files, verify_state, verified, failed, remove_calls,
                    unmount_calls, pending >>
    /\ UNCHANGED << fatal, scan_stat, scan_dcim, space_check >>
    /\ UNCHANGED << delete_answer, remove_log >>

\* ----------------------------------------------------------- verification
\* The test of verify_files (74):
\* os.path.exists(dest_path) and os.path.getsize(dest_path) == size
\* (Variant that only tests existence.)
ExistsOnly(dest, entry) == Exists(dest, entry[2])

SizeMatches(dest, entry) == Exists(dest, entry[2]) /\ dest[entry[2]].size = entry[3]

RECURSIVE VerifiedOf(_, _)
\* verify_files' verified list: the source paths whose destination file exists
\* with the catalog's size, in catalog order.
VerifiedOf(dest, files) ==
    IF files = <<>> THEN <<>>
    ELSE (IF SizeMatches(dest, Head(files)) THEN <<Head(files)[1]>> ELSE <<>>)
         \o VerifiedOf(dest, Tail(files))

RECURSIVE FailedOf(_, _)
\* verify_files' failed list: the file names of all other entries.
FailedOf(dest, files) ==
    IF files = <<>> THEN <<>>
    ELSE (IF SizeMatches(dest, Head(files)) THEN <<>> ELSE <<Head(files)[2]>>)
         \o FailedOf(dest, Tail(files))

\* Line 446: what main hands to verify_files.
\* (Variant that hands over only the entries the transfer pass reached.)
VerifyOnlyReached == SubSeq(media_files, 1, Len(outcomes))

VerifyInput == media_files

\* Lines 444-455, verify_files (66-87): runs in the finally of the transfer,
\* then the deletion prompt is shown when something was verified.
VerifyFiles ==
    /\ pc = "verify"
    /\ verified' = VerifiedOf(destination, VerifyInput)
    /\ failed' = FailedOf(destination, VerifyInput)
    /\ verify_state' = "returned"
    /\ pc' = (IF verified' # <<>> THEN "delete_prompt" ELSE "cleanup")
    /\ idx' = 0
    /\ UNCHANGED << device_type, mount_point, mounted, dcim, device_files, destination,
                    media_files, outcomes, remove_calls, unmount_calls, pending >>
    /\ UNCHANGED << fatal, scan_stat, scan_dcim, space_check >>
    /\ UNCHANGED << delete_answer, remove_log >>

\* os.path.getsize of an existing destination file raises OSError (74):
\* verify_files raises out of the finally block; nothing is assigned.
VerifyRaises ==
    /\ pc = "verify"
    /\ \E i \in 1..Len(VerifyInput) : Exists(destination, VerifyInput[i][2])
    /\ verify_state' = "raised"
    /\ pending' = "Exception"
    /\ pc' = "cleanup"
    /\ idx' = 0
    /\ UNCHANGED << device_type, mount_point, mounted, dcim, device_files, destination,
                    media_files, outcomes, verified, failed, remove_calls, unmount_calls >>
    /\ UNCHANGED << fatal, scan_stat, scan_dcim, space_check >>
    /\ UNCHANGED << delete_answer, remove_log >>

\* --------------------------------------------------------------- deletion
\* Line 453: what main hands to delete_files.
\* (Variant that hands over every catalog entry's source path.)
DeleteWholeCatalog == [i \in 1..Len(media_files) |-> media_files[i][1]]

DeleteInput == verified

\* Where main goes after the deletion prompt (452-455): delete_files only
\* when the stripped, upper-cased answer is "Y".
\* (Variant that deletes whatever the answer is.)
DeletesWithoutAsking(response) == "delete"

AfterDeletePrompt(response) == IF response = "Y" THEN "delete" ELSE "cleanup"

\* Lines 449-455: the deletion prompt.
AskDelete ==
    /\ pc = "delete_prompt"
    /\ \E response \in {"Y", "N"} :
         /\ delete_answer' = response
         /\ pc' = AfterDeletePrompt(response)
         /\ idx' = (IF pc' = "delete" THEN 1 ELSE idx)
    /\ UNCHANGED << device_type, mount_point, mounted, dcim, device_files, destination,
                    media_files, outcomes, verify_state, verified, failed, remove_calls,
                    unmount_calls, pending >>
    /\ UNCHANGED << fatal, scan_stat, scan_dcim, space_check >>
    /\ UNCHANGED remove_log

\* Where delete_files goes after the remove of path i (209-215 / 332-344):
\* the next path, failed remove or not, or back to main.
\* (Variant that leaves the loop at the first failed remove.)
StopsAtFailedRemove(ok, i, paths) == IF ok /\ i < Len(paths) THEN "delete" ELSE "cleanup"

AfterRemove(ok, i, paths) == IF i < Len(paths) THEN "delete" ELSE "cleanup"

\* delete_files (206-215 / 329-344), one path: os.remove / adb shell rm is
\* called; it removes the file, or fails, which is printed.
DeleteStep ==
    /\ pc = "delete"
    /\ remove_calls' = Append(remove_calls, DeleteInput[idx])
    /\ \E ok \in BOOLEAN :
         /\ device_files' = (IF ok THEN device_files \ {DeleteInput[idx]} ELSE device_files)
         /\ remove_log' = Append(remove_log, IF ok THEN "Deleted" ELSE "Error")
         /\ pc' = AfterRemove(ok, idx, DeleteInput)
    /\ idx' = (IF pc' = "delete" THEN idx + 1 ELSE 0)
    /\ UNCHANGED << device_type, mount_point, mounted, dcim, destination, media_files,
                    outcomes, verify_state, verified, failed, unmount_calls, pending >>
    /\ UNCHANGED << fatal, scan_stat, scan_dcim, space_check >>
    /\ UNCHANGED delete_answer

\* A Ctrl-C during a remove: the call was issued, the file is gone or not, and
\* KeyboardInterrupt leaves delete_files.
DeleteInterrupted ==
    /\ pc = "delete"
    /\ remove_calls' = Append(remove_calls, DeleteInput[idx])
    /\ \E ok \in BOOLEAN :
         device_files' = (IF ok THEN device_files \ {DeleteInput[idx]} ELSE device_files)
    /\ remove_log' = Append(remove_log, "Interrupted")
    /\ pending' = "KeyboardInterrupt"
    /\ pc' = "cleanup"
    /\ idx' = 0
    /\ UNCHANGED << device_type, mount_point, mounted, dcim, destination, media_files,
                    outcomes, verify_state, verified, failed, unmount_calls >>
    /\ UNCHANGED << fatal, scan_stat, scan_dcim, space_check >>
    /\ UNCHANGED delete_answer

\* ---------------------------------------------------------------- cleanup
\* Lines 459-465 and unmount_device (140-147): the outer finally unmounts an
\* iPhone (umount may fail, which is printed); "except Exception" then reports
\* an Exception, while a KeyboardInterrupt goes on to leave main.
Cleanup ==
    /\ pc = "cleanup"
    /\ IF device_type = "iphone"
       THEN /\ unmount_calls' = unmount_calls + 1
            /\ IF mount_point
               THEN \E ok \in BOOLEAN : mounted' = (mounted /\ ~ok)
               ELSE UNCHANGED mounted
       ELSE UNCHANGED << unmount_calls, mounted >>
    /\ pending' = (IF pending = "Exception" THEN "none" ELSE pending)
    /\ pc' = "terminated"
    /\ UNCHANGED << device_type, mount_point, dcim, device_files, destination,
                    media_files, idx, outcomes, verify_state, verified, failed,
                    remove_calls >>
    /\ UNCHANGED << fatal, scan_stat, scan_dcim, space_check >>
    /\ UNCHANGED << delete_answer, remove_log >>

Next ==
    \/ ParseArgs
    \/ CheckDependencies
    \/ IsDeviceConnected
    \/ MountDevice
    \/ AskCommence
    \/ FindMediaFiles
    \/ FindInterrupted
    \/ CheckDiskSpace
    \/ AskContinueLowSpace
    \/ CopySkip
    \/ CopyFetchOk
    \/ CopyFetchFails
    \/ CopyInterrupted
    \/ CopyRaises
    \/ VerifyFiles
    \/ VerifyRaises
    \/ AskDelete
    \/ DeleteStep
    \/ DeleteInterrupted
    \/ Cleanup

Spec == Init /\ [][Next]_vars

\* ------------------------------------------------- the scan on its own
\* find_media_files applied to every listing and every combination of
\* size-read outcomes, with the inputs kept beside the result.
InitScan ==
    /\ pc = "scan"
    /\ device_type \in {"iphone", "android"}
    /\ mount_point = (device_type = "iphone")
    /\ mounted = mount_point
    /\ dcim \in Listings
    /\ device_files = { dcim[i].path : i \in 1..Len(dcim) }
    /\ destination = [n \in DestNames |-> NoFile]
    /\ media_files = <<>>
    /\ idx = 0
    /\ outcomes = <<>>
    /\ verify_state = "not_run"
    /\ verified = <<>>
    /\ failed = <<>>
    /\ remove_calls = <<>>
    /\ unmount_calls = 0
    /\ pending = "none"
    /\ fatal = "none"
    /\ scan_stat = <<>>
    /\ scan_dcim = FALSE
    /\ space_check = <<>>
    /\ delete_answer = "none"
    /\ remove_log = <<>>

ScanDevice ==
    /\ pc = "scan"
    /\ \E dcimFound \in BOOLEAN, stat \in [1..Len(dcim) -> StatOutcomes(device_type)] :
         /\ scan_dcim' = dcimFound
         /\ scan_stat' = stat
         /\ media_files' = FindResult(device_type, mount_point, dcimFound, dcim, stat)
    /\ pc' = "scanned"
    /\ UNCHANGED << device_type, mount_point, mounted, dcim, device_files, destination,
                    idx, outcomes, verify_state, verified, failed, remove_calls,
                    unmount_calls, pending, fatal, space_check, delete_answer,
                    remove_log >>

NextScan == ScanDevice

ScanSpec == InitScan /\ [][NextScan]_vars

\* ------------------------------------------------ the space check, recorded
\* main from line 430 on, with a non-empty catalog in hand, up to the end of
\* copy_files; the free-space reading and the value check_disk_space
\* returned are recorded.
InitSpace ==
    /\ pc = "space"
    /\ device_type \in {"iphone", "android"}
    /\ mount_point = (device_type = "iphone")
    /\ mounted = mount_point
    /\ dcim \in Listings
    /\ device_files = { dcim[i].path : i \in 1..Len(dcim) }
    /\ destination \in InitialDestinations
    /\ media_files = FindResult(device_type, mount_point, TRUE, dcim,
                                [i \in 1..Len(dcim) |-> "ok"])
    /\ media_files # <<>>
    /\ idx = 0
    /\ outcomes = <<>>
    /\ verify_state = "not_run"
    /\ verified = <<>>
    /\ failed = <<>>
    /\ remove_calls = <<>>
    /\ unmount_calls = 0
    /\ pending = "none"
    /\ fatal = "none"
    /\ scan_stat = <<>>
    /\ scan_dcim = FALSE
    /\ space_check = <<>>
    /\ delete_answer = "none"
    /\ remove_log = <<>>

\* Lines 430-437, as CheckDiskSpace, keeping the reading and the verdict.
CheckDiskSpaceRecorded ==
    /\ pc = "space"
    /\ \E reading \in FreeReadings :
         LET sufficient == check_disk_space(SumSizes(media_files), reading)
         IN  /\ space_check' = <<[reading |-> reading, verdict |-> sufficient]>>
             /\ IF sufficient
                THEN pc' = "copy" /\ idx' = 1
                ELSE pc' = "space_prompt" /\ idx' = idx
    /\ UNCHANGED << device_type, mount_point, mounted, dcim, device_files, destination,
                    media_files, outcomes, verify_state, verified, failed, remove_calls,
                    unmount_calls, pending >>
    /\ UNCHANGED << fatal, scan_stat, scan_dcim, delete_answer, remove_log >>

NextSpace ==
    \/ CheckDiskSpaceRecorded
    \/ AskContinueLowSpace
    \/ CopySkip
    \/ CopyFetchOk
    \/ CopyFetchFails
    \/ CopyInterrupted
    \/ CopyRaises

SpaceSpec == InitSpace /\ [][NextSpace]_vars

\* main() is one sequential thread: whenever a step is possible, one is taken.
FairSpec == Spec /\ WF_vars(Next)

\* ------------------------------------------------------------ properties
Range(s) == { s[i] : i \in 1..Len(s) }

\* The destination holds a file under the entry's name whose size is the
\* entry's size (stated on the state, independently of the code's tests).
DestMatches(e) ==
    /\ destination[e[2]] # NoFile
    /\ destination[e[2]].size = e[3]

\* C1: every source path handed to a remove call is an element of the verified
\* list that verify_files returned in this run, and a catalog entry whose
\* destination file is missing or of the wrong size is never handed to remove
\* nor missing from the device.
C1_DeletionContainment ==
    /\ \A i \in 1..Len(remove_calls) :
         /\ verify_state = "returned"
         /\ remove_calls[i] \in Range(verified)
    /\ \A i \in 1..Len(media_files) :
         ~DestMatches(media_files[i]) =>
             /\ media_files[i][1] \notin Range(remove_calls)
             /\ media_files[i][1] \in device_files
    /\ \A i \in 1..Len(dcim) :
         dcim[i].path \notin device_files => dcim[i].path \in Range(remove_calls)

\* C1 witness: a finished run in which one candidate failed verification and
\* another one was removed from the device.
C1_Witness ==
    /\ pc = "terminated"
    /\ Len(failed) = 1
    /\ Len(remove_calls) = 1
    /\ remove_calls[1] \notin device_files

\* C2: once verify_files has returned, a catalog entry's source path is in
\* verified exactly when the destination file exists with the entry's size,
\* every other entry's file name is in failed, and the two lists together have
\* one element per catalog entry.
C2_VerifyPartition ==
    verify_state = "returned" =>
        /\ \A i \in 1..Len(media_files) :
             /\ DestMatches(media_files[i]) <=> media_files[i][1] \in Range(verified)
             /\ ~DestMatches(media_files[i]) => media_files[i][2] \in Range(failed)
        /\ Len(verified) = Cardinality({ i \in 1..Len(media_files) : DestMatches(media_files[i]) })
        /\ Len(failed) = Cardinality({ i \in 1..Len(media_files) : ~DestMatches(media_files[i]) })

\* C2 witness: verify_files returned with one entry verified and another entry,
\* whose destination file exists with the wrong size, in failed.
C2_Witness ==
    /\ verify_state = "returned"
    /\ Len(verified) = 1
    /\ \E i \in 1..Len(media_files) :
         /\ destination[media_files[i][2]] # NoFile
         /\ destination[media_files[i][2]].size # media_files[i][3]
         /\ failed = <<media_files[i][2]>>

\* C3: unmount_device is never called twice; it is not called when
\* mount_device failed (or no mount was made); once mount_device has succeeded
\* it is eventually called, and main has finished only with exactly one call,
\* on every exit path.
C3_TeardownOnce ==
    /\ [](unmount_calls <= 1)
    /\ [](~mount_point => unmount_calls = 0)
    /\ [](fatal = "mount_failed" => ~mount_point)
    /\ [](pc = "terminated" /\ mount_point => unmount_calls = 1)
    /\ [](mount_point => <>(pc = "terminated" /\ unmount_calls = 1))

\* C3 witness: main has finished after a KeyboardInterrupt raised while files
\* were being deleted, with the mounted device unmounted once.
C3_Witness ==
    /\ pc = "terminated"
    /\ mount_point
    /\ pending = "KeyboardInterrupt"
    /\ remove_calls # <<>>
    /\ unmount_calls = 1

\* copy_files has been invoked.
CopyStarted == pc = "copy" \/ outcomes # <<>>

\* C4: once copy_files has been invoked, verify_files is eventually invoked,
\* also when copy_files raises or is interrupted; and when it returns, it has
\* put every catalog entry, reached by the transfer pass or not, in one of
\* its two lists.
C4_VerifyAlwaysRuns ==
    /\ [](CopyStarted => <>(verify_state # "not_run"))
    /\ [](verify_state = "returned" =>
            /\ Len(verified) + Len(failed) = Len(media_files)
            /\ \A i \in 1..Len(media_files) :
                 \/ media_files[i][1] \in Range(verified)
                 \/ media_files[i][2] \in Range(failed))

\* C4 witness: verify_files returned after copy_files raised at its first
\* entry, and the entry the pass never reached is in failed.
C4_Witness ==
    /\ verify_state = "returned"
    /\ outcomes = <<"Raised">>
    /\ Len(media_files) = 2
    /\ media_files[2][2] \in Range(failed)

\* Every catalog entry's destination file exists with the entry's size.
FullyPopulated == \A i \in 1..Len(media_files) : DestMatches(media_files[i])

\* C5: while the destination holds every catalog entry with the right size, a
\* step of copy_files performs no fetch and leaves the destination as it is:
\* the entry is reported Skipped (or the size read itself raised), so the
\* destination stays fully populated and unchanged through the whole pass.
C5_IdempotentResume ==
    [][ (pc = "copy" /\ FullyPopulated) =>
            /\ destination' = destination
            /\ outcomes' \in { Append(outcomes, "Skipped"), Append(outcomes, "Raised") }
      ]_vars

\* C5 witness: a transfer pass over two entries has ended with both Skipped.
C5_Witness ==
    /\ pc = "verify"
    /\ outcomes = <<"Skipped", "Skipped">>
    /\ FullyPopulated

\* C6: a transfer pass handles the catalog entries one by one in catalog
\* order, each once: an entry whose destination file exists with the right
\* size is skipped (unless the size read raises), any other entry gets one
\* fetch; and a failed fetch goes on to the next entry, without a retry, and
\* leaves the verification result of every earlier entry as it was.
C6_FaultIsolation ==
    [][ pc = "copy" =>
            /\ Len(outcomes) = idx - 1
            /\ Len(outcomes') = idx
            /\ DestMatches(media_files[idx]) => outcomes'[idx] \in {"Skipped", "Raised"}
            /\ ~DestMatches(media_files[idx]) => outcomes'[idx] # "Skipped"
            /\ outcomes'[idx] = "Failed" =>
                 /\ idx' = idx + 1
                 /\ pc' = (IF idx < Len(media_files) THEN "copy" ELSE "verify")
                 /\ \A j \in 1..(idx - 1) :
                      (DestMatches(media_files[j]))' <=> DestMatches(media_files[j])
      ]_vars

\* The transfer pass has ended: every entry was handled, or copy_files was
\* left by an exception.
TransferEnded ==
    \/ Len(outcomes) = Len(media_files)
    \/ outcomes # <<>> /\ outcomes[Len(outcomes)] \in {"Raised", "Interrupted"}

\* The stages of main in their order.
StageRank(p) ==
    CASE p \in {"args", "deps", "connected", "mount", "commence"} -> 0
      [] p = "find" -> 1
      [] p \in {"space", "space_prompt"} -> 2
      [] p = "copy" -> 3
      [] p = "verify" -> 4
      [] p \in {"delete_prompt", "delete"} -> 5
      [] p \in {"cleanup", "terminated"} -> 6

\* C7: the stages occur in the order enumeration, space check, transfer,
\* verification, deletion: main never goes back to an earlier stage and enters
\* the transfer from the space check only; a fetch is made only with a catalog;
\* verify_files runs only after the transfer pass has ended; a remove call is
\* made only after verify_files has returned; and after a remove call nothing
\* is fetched or written any more.
C7_StageOrder ==
    /\ [](outcomes # <<>> => media_files # <<>>)
    /\ [](verify_state # "not_run" => TransferEnded)
    /\ [](remove_calls # <<>> => verify_state = "returned" /\ TransferEnded)
    /\ [][ /\ StageRank(pc') >= StageRank(pc)
           /\ (pc' = "copy" /\ pc # "copy" => StageRank(pc) = 2 /\ media_files # <<>>)
           /\ (outcomes' # outcomes => pc = "copy" /\ remove_calls = <<>>)
           /\ (verify_state' # verify_state => pc = "verify")
           /\ (remove_calls' # remove_calls => pc = "delete")
           /\ (remove_calls # <<>> => outcomes' = outcomes /\ destination' = destination)
         ]_vars

\* C7 witness: files were removed after a transfer pass that fetched one entry
\* and skipped the other.
C7_Witness ==
    /\ Len(remove_calls) = 2
    /\ "Copied" \in Range(outcomes)
    /\ "Skipped" \in Range(outcomes)

\* C8: after a failed dependency check, an unreachable device or a failed
\* mount, main has returned at once (no retry) without any enumeration, fetch,
\* verification, remove or unmount: the catalog is empty, the destination
\* holds only what earlier runs left, and every source file is on the device.
C8_FatalAbort ==
    fatal # "none" =>
        /\ pc = "terminated"
        /\ media_files = <<>>
        /\ outcomes = <<>>
        /\ verify_state = "not_run"
        /\ remove_calls = <<>>
        /\ unmount_calls = 0
        /\ \A n \in DestNames : destination[n] = NoFile \/ destination[n].src = PriorSrc
        /\ device_files = { dcim[i].path : i \in 1..Len(dcim) }

\* C8 witness: main has returned because mounting the iPhone failed, with
\* media files on the device.
C8_Witness ==
    /\ pc = "terminated"
    /\ fatal = "mount_failed"
    /\ Len(dcim) = 2

\* The listed item i is eligible: supported extension and a size that was read.
Eligible(i) == IsSupported(Basename(dcim[i].path)) /\ scan_stat[i] = "ok"

\* The catalog entry of the listed item i.
EntryOf(i) == <<dcim[i].path, Basename(dcim[i].path), dcim[i].size>>

\* C9: in both handlers a failed size read (OSError; a stat call that exits
\* non-zero, times out or prints no number) drops only that item: with the
\* DCIM folder listed, every other eligible item is in the returned catalog.
C9_ScanKeepsOtherItems ==
    (pc = "scanned" /\ scan_dcim) =>
        \A i \in 1..Len(dcim) : Eligible(i) => EntryOf(i) \in Range(media_files)

\* The permutations of 1..n.
Perms(n) == { f \in [1..n -> 1..n] : \A a, b \in 1..n : f[a] = f[b] => a = b }

\* find_media_files on the same items enumerated in the order f.
ScanPermuted(f) ==
    FindResult(device_type, mount_point, scan_dcim,
               [k \in 1..Len(dcim) |-> dcim[f[k]]],
               [k \in 1..Len(dcim) |-> scan_stat[f[k]]])

\* C10 as stated: the catalog is strictly ascending by file name and is the
\* same for every enumeration order of the listing.
C10_StrictAnyOrder ==
    pc = "scanned" =>
        /\ \A i \in 1..(Len(media_files) - 1) :
             StrLess(media_files[i][2], media_files[i + 1][2])
        /\ \A f \in Perms(Len(dcim)) : ScanPermuted(f) = media_files

\* The order f keeps items with the same file name in their relative order.
KeepsSameNamed(f) ==
    \A a, b \in 1..Len(dcim) :
        (a < b /\ Basename(dcim[f[a]].path) = Basename(dcim[f[b]].path)) => f[a] < f[b]

\* Position of a path in the raw listing.
ListedAt(path) == CHOOSE i \in 1..Len(dcim) : dcim[i].path = path

\* C10 amended: the catalog is ascending by file name, no entry's name being
\* greater than the next one's; entries with the same file name (the same base
\* name in two folders) are both kept, in their enumeration order; so the
\* catalog is the same for every enumeration order that keeps same-named
\* items in their relative order, which is every order when names are distinct.
C10_AscendingStable ==
    pc = "scanned" =>
        /\ \A i \in 1..(Len(media_files) - 1) :
             /\ ~StrLess(media_files[i + 1][2], media_files[i][2])
             /\ media_files[i][2] = media_files[i + 1][2] =>
                  ListedAt(media_files[i][1]) < ListedAt(media_files[i + 1][1])
        /\ \A f \in Perms(Len(dcim)) : KeepsSameNamed(f) => ScanPermuted(f) = media_files

\* C10 witness: a listing enumerated as b.MP4, a.mov came back as a.mov, b.MP4.
C10_Witness ==
    /\ pc = "scanned"
    /\ Len(dcim) = 2
    /\ Basename(dcim[1].path) = NameBMp4
    /\ Len(media_files) = 2
    /\ media_files[1][2] = NameAMov
    /\ media_files[2][2] = NameBMp4

\* The listed item i has an extension of the allow-list and a size that
\* could be read.
ReadableMedia(i) == IsSupported(Basename(dcim[i].path)) /\ scan_stat[i] = "ok"

\* C11: every entry of the catalog returned by find_media_files has a
\* fileName whose lower-cased extension is in the allow-list, an item with
\* another extension (n.txt) is never an entry, and, the DCIM folder being
\* listed, every item with an allowed extension in any case (b.MP4) and a
\* readable size is an entry.
C11_ExtensionFilter ==
    pc = "scanned" =>
        /\ \A e \in Range(media_files) :
              /\ Lower(SplitExt(e[2])) \in Range(SUPPORTED_EXTENSIONS)
              /\ e[2] # NameNTxt
        /\ scan_dcim =>
              \A i \in 1..Len(dcim) :
                  ReadableMedia(i) =>
                      \E e \in Range(media_files) : e[1] = dcim[i].path

\* C12: check_disk_space returns False exactly when the free-space reading
\* succeeds and reports fewer free bytes than the sum of the catalog's sizes,
\* and True otherwise, a failed reading included; the check ends neither the
\* run nor the transfer: main goes on to copy_files or to the prompt, and
\* from the prompt the caller can still start the transfer pass.
C12_SpaceCheckAdvisory ==
    /\ [](space_check # <<>> =>
            LET reading == space_check[1].reading
                verdict == space_check[1].verdict
            IN  /\ (verdict = FALSE) <=>
                      (reading.ok /\ reading.free < SumSizes(media_files))
                /\ ~reading.ok => verdict = TRUE
                /\ (verdict = FALSE /\ outcomes = <<>> /\ pc # "cleanup") =>
                      pc \in {"space_prompt", "copy"})
    /\ [](pc = "space_prompt" => ENABLED (AskContinueLowSpace /\ pc' = "copy"))
    /\ [][pc = "space" =>
            /\ pc' = (IF space_check'[1].verdict THEN "copy" ELSE "space_prompt")
            /\ pending' = "none"]_vars

\* A transfer pass that ran to its end after check_disk_space returned False.
C12_Witness ==
    /\ space_check # <<>>
    /\ space_check[1].verdict = FALSE
    /\ pc = "verify"
    /\ Len(outcomes) = Len(media_files)

\* The device still holds every file the DCIM listing showed.
DeviceIntact == device_files = { dcim[i].path : i \in 1..Len(dcim) }

\* C13: a remove call is issued only after verify_files has returned and the
\* deletion prompt was answered Y; with any other answer, with no answer, or
\* with an empty verified list no remove call is issued and the device keeps
\* all its files; delete_files asks nothing: once entered, each of its steps
\* issues a remove call.
C13_RemoveOnlyAfterYes ==
    /\ [](remove_calls # <<>> => (delete_answer = "Y" /\ verify_state = "returned"))
    /\ []((delete_answer # "Y" \/ verified = <<>>) =>
            (remove_calls = <<>> /\ pc # "delete" /\ DeviceIntact))
    /\ [][pc = "delete" => Len(remove_calls') = Len(remove_calls) + 1]_vars
    /\ [][pc' = "delete" => pc \in {"delete_prompt", "delete"}]_vars

\* C13 witness: the prompt answered Y and a source file removed.
C13_Witness ==
    /\ delete_answer = "Y"
    /\ remove_calls # <<>>
    /\ remove_calls[1] \notin device_files

\* The other case: an ended run with a non-empty verified list in which the
\* prompt was answered N.
C13_WitnessDeclined ==
    /\ pc = "terminated"
    /\ delete_answer = "N"
    /\ verified # <<>>
    /\ remove_calls = <<>>

\* The destination file of the device path was written from that very path,
\* in full, in this run, or was there before the run.
CopiedFrom(path) ==
    LET file == destination[Basename(path)]
    IN  /\ file # NoFile
        /\ file.src \in {path, PriorSrc}

\* C14: every source file a remove call was issued for has a destination
\* file destination/fileName whose content was copied from that same source
\* file, in this run or an earlier one, two catalog entries sharing a
\* fileName included.
C14_RemovedHasOwnCopy ==
    \A i \in 1..Len(remove_calls) : CopiedFrom(remove_calls[i])

\* copy_files has handled every catalog entry and no fetch it attempted
\* failed: each entry was copied or skipped.
PassAllSucceeded ==
    /\ media_files # <<>>
    /\ Len(outcomes) = Len(media_files)
    /\ \A k \in 1..Len(outcomes) : outcomes[k] \in {"Copied", "Skipped"}

\* C15: when two entries kept in the catalog share a fileName, then after a
\* transfer pass in which every fetch succeeded the one destination file
\* destination/fileName holds the content of the later entry, which has
\* overwritten the earlier entry's file.
C15_LaterOverwrites ==
    PassAllSucceeded =>
        \A i, j \in 1..Len(media_files) :
            (/\ i < j
             /\ media_files[i][2] = media_files[j][2]
             /\ \A k \in (j + 1)..Len(media_files) : media_files[k][2] # media_files[j][2])
            => /\ destination[media_files[j][2]] # NoFile
               /\ destination[media_files[j][2]].src = media_files[j][1]

\* C16: no step of copy_files or verify_files, whatever the outcome of the
\* fetch, removes a device file or changes the listed sizes; the device's
\* files change only in a step of delete_files, so until a remove call is
\* issued the device holds what it held when it was scanned.
C16_TransferLeavesSource ==
    /\ [][(pc \in {"copy", "verify"}) => device_files' = device_files]_vars
    /\ [][device_files' # device_files => pc = "delete"]_vars
    /\ [][dcim' = dcim]_vars
    /\ [](remove_calls = <<>> => DeviceIntact)

\* C16 witness: verify_files has returned after a transfer pass with a
\* copied and a failed entry, and the device holds all its files.
C16_Witness ==
    /\ pc = "delete_prompt"
    /\ verify_state = "returned"
    /\ "Copied" \in Range(outcomes)
    /\ "Failed" \in Range(outcomes)
    /\ DeviceIntact
    /\ device_files # {}

\* delete_files was called and has returned (it was not left by a Ctrl-C).
DeleteReturned ==
    /\ delete_answer = "Y"
    /\ pc \in {"cleanup", "terminated"}
    /\ "Interrupted" \notin Range(remove_log)

\* C17: delete_files issues its remove calls for the elements of the
\* verified list in list order, one each, and has issued one for every
\* element when it returns; a remove that fails is reported and leaves the
\* device as it is, the loop goes on with the next element, no exception
\* leaves delete_files, and no file removed before comes back.
C17_DeleteEachInOrder ==
    /\ [](/\ Len(remove_calls) <= Len(verified)
          /\ Len(remove_log) = Len(remove_calls)
          /\ \A i \in 1..Len(remove_calls) :
                /\ remove_calls[i] = verified[i]
                /\ remove_log[i] = "Deleted" => remove_calls[i] \notin device_files)
    /\ [](DeleteReturned => remove_calls = verified)
    /\ [][(pc = "delete" /\ remove_log'[Len(remove_log')] = "Error") =>
            /\ device_files' = device_files
            /\ pending' = pending
            /\ pc' = (IF idx < Len(verified) THEN "delete" ELSE "cleanup")]_vars
    /\ [][device_files' \subseteq device_files]_vars

\* C17 witness: delete_files has returned after a failed remove of the
\* first element and a successful remove of the second.
C17_Witness ==
    /\ DeleteReturned
    /\ remove_log = <<"Error", "Deleted">>
    /\ remove_calls[1] \in device_files
    /\ remove_calls[2] \notin device_files

\* The destination holds the whole file of catalog entry i, written from
\* the entry's source.
FetchCompleted(i) ==
    LET file == destination[media_files[i][2]]
    IN  /\ file # NoFile
        /\ file.src = media_files[i][1]
        /\ file.size = media_files[i][3]

\* C18: an abort request (Ctrl-C) that arrives during a fetch or a remove
\* takes effect only when that fetch or remove has completed: the entry
\* whose fetch it arrived in has its whole destination file, never a
\* partial one, and the path whose remove it arrived in is gone.
C18_AbortAtBoundary ==
    /\ \A i \in 1..Len(outcomes) : outcomes[i] = "Interrupted" => FetchCompleted(i)
    /\ \A i \in 1..Len(remove_log) :
          remove_log[i] = "Interrupted" => remove_calls[i] \notin device_files

\* No two catalog entries share a fileName.
DistinctNames ==
    \A i, j \in 1..Len(media_files) : media_files[i][2] = media_files[j][2] => i = j

\* C19: with pairwise distinct fileNames, after a transfer pass in which
\* every attempted fetch succeeded, and whatever the destination held before
\* (nothing, the right file, or a file of another size, which a fetch
\* replaces), the destination holds every entry's file with the entry's
\* size, and verify_files returns every entry's source path in verified, in
\* catalog order, and an empty failed list.
C19_CleanPassVerifiesAll ==
    (DistinctNames /\ PassAllSucceeded) =>
        /\ \A i \in 1..Len(media_files) : DestMatches(media_files[i])
        /\ verify_state = "returned" =>
              /\ failed = <<>>
              /\ verified = [i \in 1..Len(media_files) |-> media_files[i][1]]

\* C19 witness: verify_files has returned after a pass over two entries of
\* different names, one fetched and one skipped, with nothing failed.
C19_Witness ==
    /\ verify_state = "returned"
    /\ DistinctNames
    /\ PassAllSucceeded
    /\ "Copied" \in Range(outcomes)
    /\ Len(media_files) = 2
    /\ Len(verified) = 2
    /\ failed = <<>>
====
